---- MODULE Spec2Model ----
(***************************************************************************)
(* PythagoreanCache (src/src/index.ts): a queue that is emitted as a       *)
(* 'dump' event when it reaches opts.size items or every opts.interval     *)
(* milliseconds.  One instance, its options, its queue, the host's timer   *)
(* table and the list of 'dump' events emitted so far.                     *)
(***************************************************************************)
EXTENDS Integers, Sequences, FiniteSets, TLC

\* ---------------------------------------------------------------- bounds
\* largest size value given to the constructor or to setSize
MaxSize == 3
\* largest interval value (in clock units) given to the constructor or setInterval
MaxInterval == 2
\* largest number of items of one push(...items) call
MaxPushArity == 3
\* total number of items pushed in one behaviour
MaxPushed == 3
\* total number of 'dump' events emitted in one behaviour
MaxEmits == 3
\* number of distinct timer handles: the host hands out 1..MaxTimers in turn,
\* reusing a handle only after MaxTimers - 1 later ones were created
MaxTimers == 2
\* number of observers registered in one behaviour
MaxObservers == 2

\* ------------------------------------------------------- values and state
\* `private interval: NodeJS.Timeout` before any timer was armed (undefined)
NoTimer == 0

\* An optional number (opts.size, opts.interval): <<>> is undefined, <<n>> is n
Undefined == <<>>
Num(n) == <<n>>

VARIABLES
    phase,        \* "new" before the constructor ran, "live" once it returned,
                  \* "threw" when it threw (no instance exists)
    optsSize,     \* this.opts.size
    optsInterval, \* this.opts.interval
    queue,        \* this.queue
    interval,     \* this.interval: the handle of the timer armed last
    timers,       \* the host's active timers: records [id, period, elapsed]
    nextTimer,    \* the timer handle the host created last (0: none yet)
    emitted,      \* the payloads of the 'dump' events emitted so far, in order
    pushed,       \* number of items pushed so far; the i-th item pushed is i
    op,           \* the operation that ran last
    arg,          \* its numeric argument (number of items for push)
    ret,          \* the number push returned
    dumpCalled,   \* whether the last operation called this.dump()
    stopped,      \* stopInterval() was called and neither startInterval() nor
                  \* setInterval() since
    listeners,    \* the 'dump' observers in registration order: records
                  \* [once, does, live]; live is FALSE once a one-shot
                  \* observer was deregistered
    stack,        \* the emit('dump', batch) calls in progress, innermost first:
                  \* records [e, todo], the index of the batch in emitted and
                  \* the observers still to invoke for it
    invoked,      \* the observer invocations so far: records [id, e]
    aborted       \* the indices in emitted of the emit calls an observer's
                  \* exception cut short

obsVars == <<listeners, stack, invoked, aborted>>

vars == <<phase, optsSize, optsInterval, queue, interval, timers, nextTimer,
          emitted, pushed, op, arg, ret, dumpCalled, stopped,
          listeners, stack, invoked, aborted>>

\* what an observer does when it is invoked: nothing, push one more item,
\* call dump(), or throw
Behaviours == {"nop", "push", "dump", "throw"}

SizeVals == {Undefined} \cup {Num(n) : n \in -1..MaxSize}
IntervalVals == {Undefined} \cup {Num(n) : n \in 0..MaxInterval}

Min(a, b) == IF a <= b THEN a ELSE b
Max(a, b) == IF a >= b THEN a ELSE b

\* JavaScript truthiness of a number | undefined: undefined and 0 are falsy
Truthy(o) == o # Undefined /\ o[1] # 0

\* the handle the host's setInterval returns after it returned nt
NewHandle(nt) == (nt % MaxTimers) + 1

\* ------------------------------------------------- mutants of the methods
\* checkLimit() comparing with > instead of >=
checkLimitStrict(q, sz) == IF Truthy(sz) THEN Len(q) > sz[1] ELSE FALSE

\* splice(0, this.length): every dump drains the whole queue
SpliceCountAll(q, sz) == Len(q)

\* push returning the length it had before the dump
PushReturnBeforeDump(qAppended, q) == Len(qAppended)

\* the constructor rejecting only options that are both undefined
ConstructorThrowsUndefined(sz, ivl) == sz = Undefined /\ ivl = Undefined

\* checkLimit() as `this.length >= (this.opts.size || 0)`
checkLimitDefaultZero(q, sz) == Len(q) >= (IF Truthy(sz) THEN sz[1] ELSE 0)

\* dump() without its `this.length > 0` test
dumpNoGuard(q, em, sz) ==
    [queue   |-> SubSeq(q, Min(Max(IF Truthy(sz) THEN sz[1] ELSE Len(q), 0), Len(q)) + 1, Len(q)),
     emitted |-> Append(em, SubSeq(q, 1, Min(Max(IF Truthy(sz) THEN sz[1] ELSE Len(q), 0), Len(q))))]

\* setSize() that stores the size and does not look at the queue
setSizeNoCheck(q, em, n) == [size |-> Num(n), queue |-> q, emitted |-> em]

\* stopInterval() that clears nothing
stopIntervalNoClear(ts, h) == ts

\* startInterval() without its leading this.stopInterval()
startIntervalNoStop(ts, h, nt, ivl) ==
    IF Truthy(ivl)
    THEN [timers    |-> ts \cup {[id |-> NewHandle(nt), period |-> ivl[1], elapsed |-> 0]},
          interval  |-> NewHandle(nt),
          nextTimer |-> NewHandle(nt)]
    ELSE [timers |-> ts, interval |-> h, nextTimer |-> nt]

\* checkLimit() firing one item early
checkLimitOffByOne(q, sz) == IF Truthy(sz) THEN Len(q) + 1 >= sz[1] ELSE FALSE

\* dump() that empties the queue after taking its batch (`this.queue = []`)
dumpClearsQueue(q, em, sz) ==
    IF Len(q) > 0
    THEN [queue   |-> <<>>,
          emitted |-> Append(em, SubSeq(q, 1,
                         Min(Max(IF Truthy(sz) THEN sz[1] ELSE Len(q), 0), Len(q))))]
    ELSE [queue |-> q, emitted |-> em]

\* startInterval() that does not keep the handle setInterval returned
startIntervalLosesHandle(ts, h, nt, ivl) ==
    IF Truthy(ivl)
    THEN [timers    |-> (IF h # NoTimer THEN {t \in ts : t.id # h} ELSE ts)
                          \cup {[id |-> NewHandle(nt), period |-> ivl[1], elapsed |-> 0]},
          interval  |-> h,
          nextTimer |-> NewHandle(nt)]
    ELSE [timers    |-> (IF h # NoTimer THEN {t \in ts : t.id # h} ELSE ts),
          interval  |-> h,
          nextTimer |-> nt]

\* startInterval() without its `if (this.opts.interval)` test (the host arms a
\* timer of 1 ms for a delay that is not a positive number)
startIntervalAlways(ts, h, nt, ivl) ==
    [timers    |-> (IF h # NoTimer THEN {t \in ts : t.id # h} ELSE ts)
                     \cup {[id |-> NewHandle(nt),
                            period |-> IF Truthy(ivl) THEN ivl[1] ELSE 1,
                            elapsed |-> 0]},
     interval  |-> NewHandle(nt),
     nextTimer |-> NewHandle(nt)]

\* dump() reading its batch with slice() instead of splice(): nothing is removed
dumpNoSplice(q, em, sz) ==
    IF Len(q) > 0
    THEN [queue   |-> q,
          emitted |-> Append(em, SubSeq(q, 1,
                         Min(Max(IF Truthy(sz) THEN sz[1] ELSE Len(q), 0), Len(q))))]
    ELSE [queue |-> q, emitted |-> em]

\* dump() that removes its batch and does not emit it
dumpNoEmit(q, em, sz) ==
    IF Len(q) > 0
    THEN [queue   |-> SubSeq(q, Min(Max(IF Truthy(sz) THEN sz[1] ELSE Len(q), 0), Len(q)) + 1,
                             Len(q)),
          emitted |-> em]
    ELSE [queue |-> q, emitted |-> em]

\* ------------------------------------------------------------ the methods
\* constructor: `if (!opts.size && !opts.interval) throw`
ConstructorThrows(sz, ivl) == ~Truthy(sz) /\ ~Truthy(ivl)

\* checkLimit(): `this.opts.size ? this.length >= this.opts.size : false`
checkLimit(q, sz) == IF Truthy(sz) THEN Len(q) >= sz[1] ELSE FALSE

\* the number of items `this.queue.splice(0, this.opts.size || this.length)`
\* removes: splice clamps its deleteCount to 0..length
SpliceCount(q, sz) ==
    LET deleteCount == IF Truthy(sz) THEN sz[1] ELSE Len(q)
    IN  Min(Max(deleteCount, 0), Len(q))

\* dump(): the queue and the emitted events after one call
dump(q, em, sz) ==
    IF Len(q) > 0
    THEN [queue   |-> SubSeq(q, SpliceCount(q, sz) + 1, Len(q)),
          emitted |-> Append(em, SubSeq(q, 1, SpliceCount(q, sz)))]
    ELSE [queue |-> q, emitted |-> em]

\* `if (this.checkLimit()) { this.dump(); }` of push and setSize
dumpIfLimit(q, em, sz) ==
    IF checkLimit(q, sz) THEN dump(q, em, sz) ELSE [queue |-> q, emitted |-> em]

\* setSize(n): store the size, then `if (this.checkLimit()) { this.dump(); }`
setSize(q, em, n) ==
    [size    |-> Num(n),
     queue   |-> dumpIfLimit(q, em, Num(n)).queue,
     emitted |-> dumpIfLimit(q, em, Num(n)).emitted]

\* push's `return this.length`: q is the queue when push returns
PushReturn(qAppended, q) == Len(q)

\* the host's clearInterval(handle)
ClearInterval(ts, h) == {t \in ts : t.id # h}

\* stopInterval(): `if (this.interval) clearInterval(this.interval)`
stopInterval(ts, h) == IF h # NoTimer THEN ClearInterval(ts, h) ELSE ts

\* startInterval(): stop, then arm a new timer when opts.interval is truthy
startInterval(ts, h, nt, ivl) ==
    IF Truthy(ivl)
    THEN [timers    |-> stopInterval(ts, h)
                          \cup {[id |-> NewHandle(nt), period |-> ivl[1], elapsed |-> 0]},
          interval  |-> NewHandle(nt),
          nextTimer |-> NewHandle(nt)]
    ELSE [timers |-> stopInterval(ts, h), interval |-> h, nextTimer |-> nt]

\* the observers registered now, in registration order
LiveIds(ls) == SelectSeq([i \in 1..Len(ls) |-> i], LAMBDA i : ls[i].live)

\* this.emit('dump', items) when the call before..after emitted a batch: the
\* emitter takes the list of the observers registered now and invokes them in
\* that order, inside the call
emit(st, ls, before, after) ==
    IF Len(after) > Len(before) /\ LiveIds(ls) # <<>>
    THEN <<[e |-> Len(after), todo |-> LiveIds(ls)]>> \o st
    ELSE st

\* the emit calls in progress once the innermost one has taken its next observer
Taken(st) ==
    IF Len(Head(st).todo) = 1
    THEN Tail(st)
    ELSE <<[Head(st) EXCEPT !.todo = Tail(@)]>> \o Tail(st)

\* --------------------------------------------------------------- actions
Init ==
    /\ phase = "new"
    /\ optsSize = Undefined
    /\ optsInterval = Undefined
    /\ queue = <<>>
    /\ interval = NoTimer
    /\ timers = {}
    /\ nextTimer = 0
    /\ emitted = <<>>
    /\ pushed = 0
    /\ op = "none"
    /\ arg = Undefined
    /\ ret = Undefined
    /\ dumpCalled = FALSE
    /\ stopped = FALSE
    /\ listeners = <<>>
    /\ stack = <<>>
    /\ invoked = <<>>
    /\ aborted = {}

\* new PythagoreanCache({size: sz, interval: ivl})
Construct(sz, ivl) ==
    /\ phase = "new"
    /\ optsSize' = sz
    /\ optsInterval' = ivl
    /\ op' = "new"
    /\ UNCHANGED <<queue, emitted, pushed, arg, ret, dumpCalled, stopped>>
    /\ UNCHANGED obsVars
    /\ IF ConstructorThrows(sz, ivl)
       THEN /\ phase' = "threw"
            /\ UNCHANGED <<interval, timers, nextTimer>>
       ELSE LET s == startInterval(timers, interval, nextTimer, ivl)
            IN  /\ phase' = "live"
                /\ timers' = s.timers
                /\ interval' = s.interval
                /\ nextTimer' = s.nextTimer

\* push(...items) with k items
Push(k) ==
    /\ phase = "live"
    /\ stack = <<>>
    /\ pushed + k <= MaxPushed
    /\ Len(emitted) < MaxEmits
    /\ LET q1 == queue \o [i \in 1..k |-> pushed + i]
           d  == dumpIfLimit(q1, emitted, optsSize)
       IN  /\ queue' = d.queue
           /\ emitted' = d.emitted
           /\ stack' = emit(stack, listeners, emitted, d.emitted)
           /\ ret' = Num(PushReturn(q1, d.queue))
           /\ dumpCalled' = checkLimit(q1, optsSize)
    /\ pushed' = pushed + k
    /\ op' = "push"
    /\ arg' = Num(k)
    /\ UNCHANGED <<phase, optsSize, optsInterval, interval, timers, nextTimer, stopped>>
    /\ UNCHANGED <<listeners, invoked, aborted>>

\* dump() called by the owner
Dump ==
    /\ phase = "live"
    /\ stack = <<>>
    /\ Len(emitted) < MaxEmits
    /\ LET d == dump(queue, emitted, optsSize)
       IN  /\ queue' = d.queue
           /\ emitted' = d.emitted
           /\ stack' = emit(stack, listeners, emitted, d.emitted)
    /\ dumpCalled' = TRUE
    /\ op' = "dump"
    /\ arg' = Undefined
    /\ ret' = Undefined
    /\ UNCHANGED <<phase, optsSize, optsInterval, interval, timers, nextTimer,
                   pushed, stopped>>
    /\ UNCHANGED <<listeners, invoked, aborted>>

\* setSize(n)
SetSize(n) ==
    /\ phase = "live"
    /\ stack = <<>>
    /\ Len(emitted) < MaxEmits
    /\ LET d == setSize(queue, emitted, n)
       IN  /\ optsSize' = d.size
           /\ queue' = d.queue
           /\ emitted' = d.emitted
           /\ stack' = emit(stack, listeners, emitted, d.emitted)
    /\ dumpCalled' = checkLimit(queue, Num(n))
    /\ op' = "setSize"
    /\ arg' = Num(n)
    /\ ret' = Undefined
    /\ UNCHANGED <<phase, optsInterval, interval, timers, nextTimer, pushed, stopped>>
    /\ UNCHANGED <<listeners, invoked, aborted>>

\* setInterval(ms)
SetInterval(ms) ==
    /\ phase = "live"
    /\ stack = <<>>
    /\ optsInterval' = Num(ms)
    /\ LET s == startInterval(timers, interval, nextTimer, Num(ms))
       IN  /\ timers' = s.timers
           /\ interval' = s.interval
           /\ nextTimer' = s.nextTimer
    /\ stopped' = FALSE
    /\ dumpCalled' = FALSE
    /\ op' = "setInterval"
    /\ arg' = Num(ms)
    /\ ret' = Undefined
    /\ UNCHANGED <<phase, optsSize, queue, emitted, pushed>>
    /\ UNCHANGED obsVars

\* startInterval() called by the owner
StartInterval ==
    /\ phase = "live"
    /\ stack = <<>>
    /\ LET s == startInterval(timers, interval, nextTimer, optsInterval)
       IN  /\ timers' = s.timers
           /\ interval' = s.interval
           /\ nextTimer' = s.nextTimer
    /\ stopped' = FALSE
    /\ dumpCalled' = FALSE
    /\ op' = "startInterval"
    /\ arg' = Undefined
    /\ ret' = Undefined
    /\ UNCHANGED <<phase, optsSize, optsInterval, queue, emitted, pushed>>
    /\ UNCHANGED obsVars

\* stopInterval() called by the owner
StopInterval ==
    /\ phase = "live"
    /\ stack = <<>>
    /\ timers' = stopInterval(timers, interval)
    /\ stopped' = TRUE
    /\ dumpCalled' = FALSE
    /\ op' = "stopInterval"
    /\ arg' = Undefined
    /\ ret' = Undefined
    /\ UNCHANGED <<phase, optsSize, optsInterval, queue, interval, nextTimer,
                   emitted, pushed>>
    /\ UNCHANGED obsVars

\* one clock unit passes; a timer that is due fires before the clock moves on
TimePasses ==
    /\ phase = "live"
    /\ stack = <<>>
    /\ \A t \in timers : t.elapsed < t.period
    /\ timers' = {[t EXCEPT !.elapsed = @ + 1] : t \in timers}
    /\ dumpCalled' = FALSE
    /\ op' = "timePasses"
    /\ arg' = Undefined
    /\ ret' = Undefined
    /\ UNCHANGED <<phase, optsSize, optsInterval, queue, interval, nextTimer,
                   emitted, pushed, stopped>>
    /\ UNCHANGED obsVars

\* the timer callback as `() => { if (this.checkLimit()) this.dump(); }`
TickIfLimit(t) ==
    /\ t \in timers
    /\ stack = <<>>
    /\ t.elapsed = t.period
    /\ Len(emitted) < MaxEmits
    /\ LET d == dumpIfLimit(queue, emitted, optsSize)
       IN  /\ queue' = d.queue
           /\ emitted' = d.emitted
           /\ stack' = emit(stack, listeners, emitted, d.emitted)
    /\ timers' = (timers \ {t}) \cup {[t EXCEPT !.elapsed = 0]}
    /\ dumpCalled' = checkLimit(queue, optsSize)
    /\ op' = "tick"
    /\ arg' = Undefined
    /\ ret' = Undefined
    /\ UNCHANGED <<phase, optsSize, optsInterval, interval, nextTimer, pushed, stopped>>
    /\ UNCHANGED <<listeners, invoked, aborted>>

\* the callback of timer t runs: `() => { this.dump(); }`, and the period restarts
Tick(t) ==
    /\ t \in timers
    /\ stack = <<>>
    /\ t.elapsed = t.period
    /\ Len(emitted) < MaxEmits
    /\ LET d == dump(queue, emitted, optsSize)
       IN  /\ queue' = d.queue
           /\ emitted' = d.emitted
           /\ stack' = emit(stack, listeners, emitted, d.emitted)
    /\ timers' = (timers \ {t}) \cup {[t EXCEPT !.elapsed = 0]}
    /\ dumpCalled' = TRUE
    /\ op' = "tick"
    /\ arg' = Undefined
    /\ ret' = Undefined
    /\ UNCHANGED <<phase, optsSize, optsInterval, interval, nextTimer, pushed, stopped>>
    /\ UNCHANGED <<listeners, invoked, aborted>>

\* on('dump', handler) / once('dump', handler) called by the owner, with a
\* handler that does b; the owner registers its observers before it pushes
Register(isOnce, b) ==
    /\ phase = "live"
    /\ stack = <<>>
    /\ pushed = 0
    /\ Len(listeners) < MaxObservers
    /\ listeners' = Append(listeners,
                           [once |-> isOnce, does |-> b, live |-> TRUE])
    /\ dumpCalled' = FALSE
    /\ op' = IF isOnce THEN "once" ELSE "on"
    /\ arg' = Undefined
    /\ ret' = Undefined
    /\ UNCHANGED <<phase, optsSize, optsInterval, queue, interval, timers, nextTimer,
                   emitted, pushed, stopped, stack, invoked, aborted>>

\* the innermost emit in progress invokes its next observer.  A one-shot
\* observer is deregistered just before its handler runs, and is passed over
\* when it has run already; an exception leaves every emit in progress.
RunListener ==
    /\ stack # <<>>
    /\ LET f  == Head(stack)
           id == Head(f.todo)
           l  == listeners[id]
       IN  IF l.once /\ ~l.live
           THEN /\ stack' = Taken(stack)
                /\ dumpCalled' = FALSE
                /\ UNCHANGED <<queue, emitted, pushed, listeners, invoked, aborted>>
           ELSE /\ listeners' = IF l.once THEN [listeners EXCEPT ![id].live = FALSE]
                                          ELSE listeners
                /\ invoked' = Append(invoked, [id |-> id, e |-> f.e])
                /\ CASE l.does = "nop" ->
                          /\ stack' = Taken(stack)
                          /\ dumpCalled' = FALSE
                          /\ UNCHANGED <<queue, emitted, pushed, aborted>>
                     [] l.does = "throw" ->
                          /\ stack' = <<>>
                          /\ aborted' = aborted \cup {Taken(stack)[j].e : j \in 1..Len(Taken(stack))}
                          /\ dumpCalled' = FALSE
                          /\ UNCHANGED <<queue, emitted, pushed>>
                     [] l.does = "push" ->
                          /\ pushed + 1 <= MaxPushed
                          /\ Len(emitted) < MaxEmits
                          /\ LET q1 == Append(queue, pushed + 1)
                                 d  == dumpIfLimit(q1, emitted, optsSize)
                             IN  /\ queue' = d.queue
                                 /\ emitted' = d.emitted
                                 /\ stack' = emit(Taken(stack), listeners', emitted, d.emitted)
                                 /\ dumpCalled' = checkLimit(q1, optsSize)
                          /\ pushed' = pushed + 1
                          /\ UNCHANGED aborted
                     [] l.does = "dump" ->
                          /\ Len(emitted) < MaxEmits
                          /\ LET d == dump(queue, emitted, optsSize)
                             IN  /\ queue' = d.queue
                                 /\ emitted' = d.emitted
                                 /\ stack' = emit(Taken(stack), listeners', emitted, d.emitted)
                          /\ dumpCalled' = TRUE
                          /\ UNCHANGED <<pushed, aborted>>
    /\ op' = "listener"
    /\ arg' = Undefined
    /\ ret' = Undefined
    /\ UNCHANGED <<phase, optsSize, optsInterval, interval, timers, nextTimer, stopped>>

Next ==
    \/ \E sz \in SizeVals, ivl \in IntervalVals : Construct(sz, ivl)
    \/ \E k \in 0..MaxPushArity : Push(k)
    \/ Dump
    \/ \E n \in -1..MaxSize : SetSize(n)
    \/ \E ms \in 0..MaxInterval : SetInterval(ms)
    \/ StartInterval
    \/ StopInterval
    \/ TimePasses
    \/ \E t \in timers : Tick(t)

Spec == Init /\ [][Next]_vars

\* the cache with observers registered on its 'dump' event, its options as
\* given to the constructor: any size, and no interval or an interval of 1
NextObs ==
    \/ \E sz \in SizeVals, ivl \in {Undefined, Num(1)} : Construct(sz, ivl)
    \/ \E isOnce \in BOOLEAN, b \in Behaviours : Register(isOnce, b)
    \/ \E k \in 0..MaxPushArity : Push(k)
    \/ Dump
    \/ TimePasses
    \/ \E t \in timers : Tick(t)
    \/ RunListener

SpecObs == Init /\ [][NextObs]_vars

\* ------------------------------------------- the interval trigger, fairly
\* The operations of a cache whose options stay in the documented domains (a
\* positive or absent size, a positive interval) and whose timer is never
\* stopped nor set to 0.
NextLive ==
    \/ \E sz \in {Undefined} \cup {Num(n) : n \in 1..MaxSize},
          ivl \in {Num(n) : n \in 1..MaxInterval} : Construct(sz, ivl)
    \/ \E k \in 0..MaxPushArity : Push(k)
    \/ Dump
    \/ \E n \in 1..MaxSize : SetSize(n)
    \/ \E ms \in 1..MaxInterval : SetInterval(ms)
    \/ StartInterval
    \/ TimePasses
    \/ \E t \in timers : Tick(t)

\* the host's event loop: time keeps passing and a due timer callback runs
Fairness ==
    /\ WF_vars(TimePasses)
    /\ WF_vars(\E t \in timers : Tick(t))

SpecLive == Init /\ [][NextLive]_vars /\ Fairness

\* ------------------------------------------------------------ properties
\* the items lo..hi in push order
Items(lo, hi) == [i \in 1..(hi - lo + 1) |-> lo + i - 1]

\* total number of items in the batches em
RECURSIVE Delivered(_)
Delivered(em) == IF em = <<>> THEN 0 ELSE Len(Head(em)) + Delivered(Tail(em))

\* the queue a dump() called in this step found: the old queue followed by the
\* items this step pushed
QueueAtDump == queue \o Items(pushed + 1, pushed')

\* the batches this step emitted
NewBatches == SubSeq(emitted', Len(emitted) + 1, Len(emitted'))

\* C1: with size = N >= 1 and only pushes so far (nothing emitted, every pushed
\* item still queued, fewer than N of them), a push that leaves the count below N
\* emits nothing, and the push that brings the count to exactly N emits exactly
\* one 'dump' whose payload is the N items in push order, and returns length 0.
C1_SizeReachedDumpsAll ==
    [][(/\ op' = "push"
        /\ Truthy(optsSize) /\ optsSize[1] >= 1
        /\ emitted = <<>>
        /\ queue = Items(1, pushed)
        /\ pushed < optsSize[1])
       => /\ pushed' < optsSize[1] => emitted' = <<>>
          /\ pushed' = optsSize[1] =>
                /\ emitted' = <<Items(1, optsSize[1])>>
                /\ queue' = <<>>
                /\ ret' = Num(0)]_vars

\* size 3 reached by three pushes of one item each: one dump of <<1, 2, 3>>
C1_Witness ==
    /\ op = "push" /\ arg = Num(1) /\ dumpCalled
    /\ optsSize = Num(3) /\ pushed = 3
    /\ emitted = <<(<<1, 2, 3>>)>>
    /\ queue = <<>> /\ ret = Num(0)

\* C2: a dump() that finds a non-empty queue q (called by the owner, by push, by
\* setSize or by a timer tick) emits exactly one 'dump' with the first
\* min(size, |q|) items of q when a size limit (a positive size) is set, and
\* with all of q when none is set (size undefined or 0); the queue afterwards is
\* the rest of q in the same order.
C2_DumpTakesPrefix ==
    [][(/\ dumpCalled'
        /\ QueueAtDump # <<>>
        /\ optsSize' # Undefined => optsSize'[1] >= 0)
       => LET q == QueueAtDump
              n == IF Truthy(optsSize') THEN Min(optsSize'[1], Len(q)) ELSE Len(q)
          IN  /\ emitted' = Append(emitted, SubSeq(q, 1, n))
              /\ queue' = SubSeq(q, n + 1, Len(q))
              /\ Truthy(optsSize') => Len(q) - Len(queue') <= optsSize'[1]]_vars

\* a dump that took exactly size items and left a remainder queued
C2_Witness ==
    /\ dumpCalled
    /\ Truthy(optsSize) /\ optsSize[1] >= 1
    /\ emitted # <<>>
    /\ Len(emitted[Len(emitted)]) = optsSize[1]
    /\ queue # <<>>

\* C3: push returns the length the queue has when it returns: the old length
\* plus the number of items when the size trigger did not fire, and that sum
\* less the items of the single batch emitted when it fired.
C3_PushReturnsLength ==
    [][op' = "push"
       => /\ ret' = Num(Len(queue'))
          /\ ~dumpCalled' => /\ ret' = Num(Len(queue) + arg'[1])
                             /\ emitted' = emitted
          /\ dumpCalled' => /\ Len(NewBatches) <= 1
                            /\ ret' = Num(Len(queue) + arg'[1] - Delivered(NewBatches))]_vars

\* a push whose dump left items queued returned that remaining length
C3_Witness ==
    /\ op = "push" /\ dumpCalled
    /\ emitted # <<>>
    /\ queue # <<>>
    /\ ret = Num(Len(queue))

\* C4 (as claimed): every push that fires the size trigger of a positive size
\* emits all the items in the cache at that moment and returns with the cache
\* empty.
C4_PushDumpEmptiesCache ==
    [][(/\ op' = "push"
        /\ dumpCalled'
        /\ Truthy(optsSize) /\ optsSize[1] >= 1)
       => /\ emitted' = Append(emitted, QueueAtDump)
          /\ queue' = <<>>
          /\ ret' = Num(0)]_vars

\* both options are undefined, 0 or absent
BothFalsy(sz, ivl) == (sz = Undefined \/ sz = Num(0)) /\ (ivl = Undefined \/ ivl = Num(0))

\* the options are in the documented domains: size a positive integer,
\* interval a non-negative integer, each possibly absent
Documented(sz, ivl) ==
    /\ sz = Undefined \/ sz[1] >= 1
    /\ ivl = Undefined \/ ivl[1] >= 0

\* C5 (as claimed): for options in the documented domains, construction throws
\* if and only if size and interval are both undefined.
C5_ThrowsIffBothAbsent ==
    (op = "new" /\ Documented(optsSize, optsInterval))
        => (phase = "threw" <=> (optsSize = Undefined /\ optsInterval = Undefined))

\* C5 (amended): construction throws if and only if size and interval are both
\* falsy (undefined or 0), so {interval: 0} without a size throws too; a
\* construction that threw armed no timer and leaves no instance to operate on.
C5_ThrowsIffBothFalsy ==
    /\ op = "new" => (phase = "threw" <=> BothFalsy(optsSize, optsInterval))
    /\ phase = "threw" =>
          /\ op = "new"
          /\ timers = {} /\ interval = NoTimer /\ nextTimer = 0
          /\ queue = <<>> /\ emitted = <<>>

\* new PythagoreanCache({interval: 0}) threw
C5_Witness ==
    /\ op = "new" /\ phase = "threw"
    /\ optsSize = Undefined /\ optsInterval = Num(0)

\* the handles and periods of the active timers
Armed(ts) == {[id |-> t.id, period |-> t.period] : t \in ts}

\* C6: dump() on an empty queue, called by the owner or by a timer tick, emits
\* nothing and leaves the queue, the size, the interval and the timer as they
\* were (a tick only restarts the period of the timer that fired).
C6_EmptyDumpIsNoOp ==
    [][(op' \in {"dump", "tick"} /\ queue = <<>>)
       => /\ emitted' = emitted
          /\ queue' = <<>>
          /\ optsSize' = optsSize
          /\ optsInterval' = optsInterval
          /\ interval' = interval
          /\ Armed(timers') = Armed(timers)
          /\ op' = "dump" => timers' = timers]_vars

\* a timer ticked on a cache nothing was ever pushed to
C6_Witness ==
    /\ op = "tick" /\ dumpCalled
    /\ pushed = 0 /\ queue = <<>> /\ emitted = <<>>
    /\ timers # {}

\* C7: with no size limit, no push emits; and when nothing was emitted yet, a
\* timer tick that finds pushed items emits exactly one 'dump' with all the items
\* pushed so far in push order and leaves the queue empty.
C7_IntervalOnlyDumpsOnTick ==
    [][/\ (op' = "push" /\ ~Truthy(optsSize))
            => /\ emitted' = emitted
               /\ queue' = QueueAtDump
               /\ ~dumpCalled'
       /\ (op' = "tick" /\ ~Truthy(optsSize) /\ emitted = <<>> /\ pushed > 0)
            => /\ emitted' = <<Items(1, pushed)>>
               /\ queue' = <<>>]_vars

\* the tick of an interval-only cache emitted the items of two or more pushes
C7_Witness ==
    /\ op = "tick"
    /\ optsSize = Undefined /\ Truthy(optsInterval)
    /\ pushed >= 2
    /\ emitted = <<Items(1, pushed)>>
    /\ queue = <<>>

C9_NoTickAfterStop ==
    stopped => (timers = {} /\ op # "tick")

\* a timer was armed and stopped, items are queued and time passes
C9_Witness ==
    /\ stopped /\ op = "timePasses"
    /\ Truthy(optsInterval) /\ nextTimer >= 1
    /\ queue # <<>>

\* C10: setInterval(ms) stores ms and cancels the timer that was armed; for
\* ms > 0 the only active timer afterwards is a new one of period ms with
\* nothing elapsed, for ms = 0 no timer is active.
C10_SetIntervalRearms ==
    [][op' = "setInterval"
       => /\ optsInterval' = arg'
          /\ arg'[1] > 0 =>
                /\ timers' = {[id |-> interval', period |-> arg'[1], elapsed |-> 0]}
                /\ interval' # interval
                /\ \A t \in timers : t.id # interval'
          /\ arg'[1] = 0 => timers' = {}]_vars

\* setInterval(2) replaced an earlier timer: only the new timer is active
C10_Witness ==
    /\ op = "setInterval" /\ arg = Num(2)
    /\ nextTimer = 2
    /\ timers = {[id |-> 2, period |-> 2, elapsed |-> 0]}

\* C11: at most one timer is active at any time.
C11_AtMostOneTimer ==
    Cardinality(timers) <= 1

\* a second timer was armed and it is the only one active
C11_Witness ==
    /\ nextTimer = 2
    /\ interval = 2
    /\ \E t \in timers : t.id = 2
    /\ Cardinality(timers) = 1

\* C12: with size = N >= 1 and only pushes so far (nothing emitted, every pushed
\* item still queued), a push that leaves the total below N calls no dump and
\* emits nothing, and the length it returns is the number of items pushed.
C12_BelowSizeNoDump ==
    [][(/\ op' = "push"
        /\ Truthy(optsSize) /\ optsSize[1] >= 1
        /\ emitted = <<>>
        /\ queue = Items(1, pushed)
        /\ pushed' < optsSize[1])
       => /\ ~dumpCalled'
          /\ emitted' = <<>>
          /\ queue' = Items(1, pushed')
          /\ ret' = Num(pushed')]_vars

\* two of three items pushed one at a time: nothing emitted, length 2
C12_Witness ==
    /\ op = "push" /\ arg = Num(1) /\ ~dumpCalled
    /\ optsSize = Num(3) /\ pushed = 2
    /\ emitted = <<>>
    /\ queue = <<1, 2>> /\ ret = Num(2)

\* C15: stopInterval() with no timer active changes nothing; a timer armed by
\* startInterval() or setInterval() after stopInterval() is the one active
\* timer, under the handle the instance holds, and no operation of the live
\* instance other than stopInterval, startInterval and setInterval cancels it.
C15_StopWithoutTimerIsNoOp ==
    [][/\ (op' = "stopInterval" /\ timers = {})
            => /\ timers' = {}
               /\ UNCHANGED <<phase, optsSize, optsInterval, queue, interval,
                              nextTimer, emitted, pushed>>
       /\ (stopped /\ op' \in {"startInterval", "setInterval"} /\ Truthy(optsInterval'))
            => timers' = {[id |-> interval', period |-> optsInterval'[1], elapsed |-> 0]}
       /\ op' \notin {"new", "stopInterval", "startInterval", "setInterval"}
            => Armed(timers') = Armed(timers)]_vars

\* stopInterval() ran on a cache that never had an interval
C15_Witness ==
    /\ op = "stopInterval" /\ stopped
    /\ optsInterval = Undefined /\ Truthy(optsSize)
    /\ interval = NoTimer /\ nextTimer = 0
    /\ timers = {}

\* the batches em, concatenated in emission order
RECURSIVE Flatten(_)
Flatten(em) == IF em = <<>> THEN <<>> ELSE Head(em) \o Flatten(Tail(em))

\* C16: the batches emitted so far, concatenated in emission order, followed by
\* the queue are exactly the items pushed so far in push order.
C16_ConservationFifo ==
    Flatten(emitted) \o queue = Items(1, pushed)

\* two batches were emitted and items are still queued
C16_Witness ==
    /\ Len(emitted) >= 2
    /\ emitted[1] # <<>> /\ emitted[2] # <<>>
    /\ queue # <<>>

\* C18: with a positive size N that the step does not change and a queue
\* shorter than N, every operation other than setSize, a push carrying at most
\* N items included, returns with the queue shorter than N; the queue is empty
\* when the constructor returns.
C18_QueueBelowSize ==
    [][/\ op' = "new" => queue' = <<>>
       /\ (/\ Truthy(optsSize) /\ optsSize[1] >= 1
           /\ Len(queue) < optsSize[1]
           /\ op' # "setSize"
           /\ op' = "push" => arg'[1] <= optsSize[1])
            => /\ optsSize' = optsSize
               /\ Len(queue') < optsSize[1]]_vars

\* a push of N = 2 items onto one queued item dumped and left one item
C18_Witness ==
    /\ op = "push" /\ dumpCalled
    /\ optsSize = Num(2) /\ arg = Num(2)
    /\ emitted = <<(<<1, 2>>)>>
    /\ queue = <<3>>

\* C19 (as claimed): no emitted batch is empty, whatever numeric size was given
\* to the constructor or to setSize.
C19_NoEmptyBatch ==
    \A e \in 1..Len(emitted) : emitted[e] # <<>>

\* C20: a timer is active only while the interval setting is a positive
\* number, and its period is that setting; a construction that threw armed
\* none; when startInterval() returns, exactly one timer of the current
\* setting is active if the setting is positive, and none otherwise.
C20_TimerOnlyWithInterval ==
    /\ timers # {} =>
          /\ Truthy(optsInterval) /\ optsInterval[1] > 0
          /\ \A t \in timers : t.period = optsInterval[1]
    /\ phase = "threw" => timers = {}
    /\ ~Truthy(optsInterval) => timers = {}
    /\ op = "startInterval" =>
          timers = IF Truthy(optsInterval)
                   THEN {[id |-> interval, period |-> optsInterval[1], elapsed |-> 0]}
                   ELSE {}

\* startInterval() re-armed a timer after an earlier one
C20_Witness ==
    /\ op = "startInterval"
    /\ nextTimer = 2
    /\ Truthy(optsInterval)
    /\ timers = {[id |-> 2, period |-> optsInterval[1], elapsed |-> 0]}

\* item i was delivered in some 'dump'
IsDelivered(i) == \E e \in 1..Len(emitted) : \E k \in 1..Len(emitted[e]) : emitted[e][k] = i

\* C17 (as claimed): with a positive interval and a timer that is never stopped
\* nor set to 0, every item pushed is eventually delivered in some 'dump'.
C17_EveryItemDelivered ==
    \A i \in 1..MaxPushed : (pushed >= i) ~> IsDelivered(i)

\* setInterval() and startInterval() are called only finitely often
RearmsSettle == <>[][op' \notin {"setInterval", "startInterval"}]_vars

\* C17 (amended): the same, provided setInterval() and startInterval() are
\* called only finitely often (each call restarts the period from zero).
C17_EveryItemDeliveredOnceSettled ==
    RearmsSettle => \A i \in 1..MaxPushed : (pushed >= i) ~> IsDelivered(i)

\* a tick delivered the last items of a queue longer than the size limit
C17_Witness ==
    /\ op = "tick"
    /\ Truthy(optsSize)
    /\ Len(emitted) >= 2
    /\ pushed = MaxPushed
    /\ \A i \in 1..MaxPushed : IsDelivered(i)

\* number of places of seq that hold x
Occurs(x, seq) == Cardinality({p \in 1..Len(seq) : seq[p] = x})

\* C13: the batch is out of the queue before its observers run, and stays out
\* whatever they do: while an emit is in progress, and after an observer pushed,
\* called dump() or threw, no item of an emitted batch is in the queue or in a
\* second batch, and no pushed item is missing.
C13_BatchExtractedBeforeObservers ==
    LET all == Flatten(emitted) \o queue
    IN  /\ \A j \in 1..Len(stack) :
              \A k \in 1..Len(emitted[stack[j].e]) :
                  Occurs(emitted[stack[j].e][k], queue) = 0
        /\ \A a, b \in 1..Len(all) : a # b => all[a] # all[b]
        /\ Len(all) = pushed

\* an observer called dump() while the emit that invoked it is in progress,
\* and items are still queued
C13_Witness ==
    /\ op = "listener" /\ dumpCalled
    /\ Len(stack) >= 2
    /\ queue # <<>>

\* number of invocations of observer i for the batch emitted[e]
Calls(i, e) == Cardinality({p \in 1..Len(invoked) : invoked[p] = [id |-> i, e |-> e]})

\* number of invocations of observer i
CallsOf(i) == Cardinality({p \in 1..Len(invoked) : invoked[p].id = i})

\* what C14 says of every dump, whether or not an observer threw: each batch
\* taken out of the queue is emitted, its observers are invoked in registration
\* order, none twice for the same batch, and a one-shot observer is invoked at
\* most once in all and is deregistered when it is
ObserversInOrderAtMostOnce ==
    /\ Len(Flatten(emitted)) + Len(queue) = pushed
    /\ \A p, q \in 1..Len(invoked) :
          (p < q /\ invoked[p].e = invoked[q].e) => invoked[p].id < invoked[q].id
    /\ \A i \in 1..Len(listeners) :
          listeners[i].once => /\ CallsOf(i) <= 1
                               /\ CallsOf(i) = 1 <=> ~listeners[i].live

====
